---- MODULE Spec2Model ----
(***************************************************************************)
(* Policy store adapter of casbin-mesh (server/adapter/adapter.go) over a  *)
(* flat, byte-ordered key/value keyspace.  Strings are sequences of        *)
(* one-character strings, so that joining, splitting, prefix seeks and     *)
(* substring tests are computed the way the Go code computes them.         *)
(***************************************************************************)
EXTENDS Integers, Sequences, FiniteSets, TLC

VARIABLES db, builtinPolicy, last, rfp, txns

vars == <<db, builtinPolicy, last, rfp, txns>>

(***************************************************************************)
(* Bounds of the model.                                                    *)
(***************************************************************************)
MaxStore == 2
MaxBatch == 2
MaxListKeys == 3
MaxSkip == 2
MaxLimit == 2

(***************************************************************************)
(* Characters and their byte order.  "x" stands for a byte that is not     *)
(* valid UTF-8 (0xff); "R" for the replacement rune U+FFFD.                *)
(***************************************************************************)
Ord(c) ==
    CASE c = " " -> 32
      [] c = "#" -> 35
      [] c = "," -> 44
      [] c = "2" -> 50
      [] c = ":" -> 58
      [] c = "P" -> 80
      [] c = "a" -> 97
      [] c = "b" -> 98
      [] c = "n" -> 110
      [] c = "p" -> 112
      [] c = "R" -> 239
      [] c = "x" -> 255
      [] OTHER -> 10

RECURSIVE LexLess(_, _)
LexLess(s, t) ==
    IF Len(t) = 0 THEN FALSE
    ELSE IF Len(s) = 0 THEN TRUE
    ELSE IF Ord(s[1]) # Ord(t[1]) THEN Ord(s[1]) < Ord(t[1])
    ELSE LexLess(Tail(s), Tail(t))

(***************************************************************************)
(* Go's strings package.                                                   *)
(***************************************************************************)
RECURSIVE Join(_, _)
Join(elems, sep) ==
    IF Len(elems) = 0 THEN <<>>
    ELSE IF Len(elems) = 1 THEN elems[1]
    ELSE elems[1] \o sep \o Join(Tail(elems), sep)

HasPrefix(s, prefix) ==
    Len(prefix) <= Len(s) /\ SubSeq(s, 1, Len(prefix)) = prefix

Contains(s, substr) ==
    \E i \in 1..(Len(s) - Len(substr) + 1) :
        SubSeq(s, i, i + Len(substr) - 1) = substr

Index(s, sep) ==
    LET hits == {i \in 1..(Len(s) - Len(sep) + 1) :
                    SubSeq(s, i, i + Len(sep) - 1) = sep}
    IN  IF hits = {} THEN 0
        ELSE CHOOSE i \in hits : \A j \in hits : i <= j

RECURSIVE Split(_, _)
Split(s, sep) ==
    LET i == Index(s, sep)
    IN  IF i = 0 THEN <<s>>
        ELSE <<SubSeq(s, 1, i - 1)>>
                 \o Split(SubSeq(s, i + Len(sep), Len(s)), sep)

RECURSIVE TrimLeft(_)
TrimLeft(s) ==
    IF Len(s) > 0 /\ s[1] = " " THEN TrimLeft(Tail(s)) ELSE s

RECURSIVE TrimRight(_)
TrimRight(s) ==
    IF Len(s) > 0 /\ s[Len(s)] = " "
    THEN TrimRight(SubSeq(s, 1, Len(s) - 1)) ELSE s

TrimSpace(s) == TrimRight(TrimLeft(s))

(***************************************************************************)
(* Rule encoding.                                                          *)
(***************************************************************************)
Sep == <<":", ":">>

getKey(rule) == Join(rule, Sep)

convertRule(ptype, line) == <<ptype>> \o line

\* json.Marshal of a []string: every string is coerced to valid UTF-8, an
\* invalid byte becoming the replacement rune.
CoerceUTF8(s) == [i \in 1..Len(s) |-> IF s[i] = "x" THEN "R" ELSE s[i]]

Marshal(rule) == [i \in 1..Len(rule) |-> CoerceUTF8(rule[i])]

\* json.Unmarshal of a stored value gives back the encoded string list.
Unmarshal(bts) == bts

(***************************************************************************)
(* Input universe: policy types, rule lines and filter values.             *)
(***************************************************************************)
PT_p  == <<"p">>
PT_p2 == <<"p", "2">>
PTypes == {PT_p, PT_p2}

F_a    == <<"a">>
F_b    == <<"b">>
F_ab   == <<"a", "b">>
F_sep  == <<"a", ":", ":", "b">>
F_bad  == <<"x">>
F_com  == <<"a", ",", "b">>

Lines == {<<F_a>>, <<F_a, F_b>>, <<F_ab>>, <<F_sep>>, <<F_bad>>, <<F_com>>}

BatchLines == {<<F_a>>, <<F_a, F_b>>, <<F_sep>>}

UpdateLines == {<<F_a>>, <<F_a, F_b>>}

SeqsUpTo(S, n) == UNION {[1..k -> S] : k \in 0..n}

FieldIndexes == {-1, 0, 1, 2}

FilterValues == {<<>>, <<F_a>>, <<F_b>>, <<F_a, F_b>>}

Namespace == <<"n">>

NL == "\n"

Seeds ==
    { <<>>,
      <<"p", ",", " ", "a", ",", " ", "b", NL,
        "#", " ", "b", NL,
        NL,
        " ", "p", "2", ",", "b", " ">> }

(***************************************************************************)
(* The ordered key/value engine and the bucket layer on top of it.         *)
(***************************************************************************)
NoErr == "nil"
ErrEngine == "engine error"
ErrEmptyFieldValues == "empty filed values"
InvalidRulesLen == "invalid rule len"
ErrPanic == "panic"
ErrNotSupported == "not supported: must use auto-save with this adapter"

Tomb == <<>>

EmptyDB == [k \in {} |-> <<>>]

prefixPolicies == <<"P">>

withPrefix(namespace, key) == prefixPolicies \o namespace \o key

\* A read-write transaction: the snapshot it reads, its buffered writes, the
\* keys it has read, the number of writes issued, the write the engine
\* rejects (0: none), its error.
NewTx(d, failAt) ==
    [snap |-> d, w |-> EmptyDB, reads |-> {}, n |-> 0, failAt |-> failAt,
     err |-> NoErr]

TxWrite(tx, k, v) ==
    IF tx.n + 1 = tx.failAt
    THEN [tx EXCEPT !.n = @ + 1, !.err = ErrEngine]
    ELSE [tx EXCEPT !.n = @ + 1,
                    !.w = [x \in DOMAIN tx.w \cup {k} |->
                              IF x = k THEN v ELSE tx.w[x]]]

TxHas(tx, k) ==
    IF k \in DOMAIN tx.w THEN tx.w[k] # Tomb ELSE k \in DOMAIN tx.snap

BucketPut(tx, namespace, key, value) ==
    TxWrite(tx, withPrefix(namespace, key), value)

BucketDelete(tx, namespace, key) ==
    TxWrite(tx, withPrefix(namespace, key), Tomb)

BucketExist(tx, namespace, key) == TxHas(tx, withPrefix(namespace, key))

\* The transaction after a lookup of key: the key is in its read set.
BucketRead(tx, namespace, key) ==
    [tx EXCEPT !.reads = @ \cup {withPrefix(namespace, key)}]

\* db.Update: commit the buffered writes when fn returned nil, else discard.
Update(d, tx) ==
    IF tx.err # NoErr THEN d
    ELSE LET keys == {k \in DOMAIN d \cup DOMAIN tx.w :
                         IF k \in DOMAIN tx.w THEN tx.w[k] # Tomb ELSE TRUE}
         IN  [k \in keys |-> IF k \in DOMAIN tx.w THEN tx.w[k] ELSE d[k]]

\* Keys of S in ascending byte order.
RECURSIVE SortKeys(_)
SortKeys(S) ==
    IF S = {} THEN <<>>
    ELSE LET m == CHOOSE k \in S : \A o \in S : o = k \/ LexLess(k, o)
         IN  <<m>> \o SortKeys(S \ {m})

\* Iterator: Seek(prefix), then Next while ValidForPrefix(prefix).
Iterate(d, prefix) == SortKeys({k \in DOMAIN d : HasPrefix(k, prefix)})

(***************************************************************************)
(* Adapter operations, as the function each passes to db.Update / db.View. *)
(***************************************************************************)
AddPolicyFn(tx, namespace, ptype, rule) ==
    LET line == convertRule(ptype, rule)
    IN  BucketPut(tx, namespace, getKey(line), Marshal(line))

\* AddPolicies that skips a rule whose write fails instead of returning.
RECURSIVE AddPoliciesFn_IgnoreErr(_, _, _, _)
AddPoliciesFn_IgnoreErr(tx, namespace, ptype, rules) ==
    IF Len(rules) = 0 THEN tx
    ELSE LET line == convertRule(ptype, rules[1])
             t2 == BucketPut(tx, namespace, getKey(line), Marshal(line))
         IN  AddPoliciesFn_IgnoreErr([t2 EXCEPT !.err = NoErr], namespace,
                                     ptype, Tail(rules))

RECURSIVE AddPoliciesFn(_, _, _, _)
AddPoliciesFn(tx, namespace, ptype, rules) ==
    IF Len(rules) = 0 THEN tx
    ELSE LET line == convertRule(ptype, rules[1])
             t2 == BucketPut(tx, namespace, getKey(line), Marshal(line))
         IN  IF t2.err # NoErr THEN t2
             ELSE AddPoliciesFn(t2, namespace, ptype, Tail(rules))

RemovePolicyFn(tx, namespace, ptype, line) ==
    BucketDelete(tx, namespace, getKey(convertRule(ptype, line)))

RECURSIVE RemovePoliciesFn(_, _, _, _)
RemovePoliciesFn(tx, namespace, ptype, rules) ==
    IF Len(rules) = 0 THEN tx
    ELSE LET t2 == BucketDelete(tx, namespace,
                                getKey(convertRule(ptype, rules[1])))
         IN  IF t2.err # NoErr THEN t2
             ELSE RemovePoliciesFn(t2, namespace, ptype, Tail(rules))

\* UpdatePolicy reporting success although the write of the new rule failed.
UpdatePolicyFn_IgnorePutErr(tx, namespace, ptype, oldRule, newPolicy) ==
    LET rule == convertRule(ptype, oldRule)
        t1 == BucketRead(tx, namespace, getKey(rule))
    IN  IF BucketExist(t1, namespace, getKey(rule))
        THEN LET t2 == BucketDelete(t1, namespace, getKey(rule))
                 line == convertRule(ptype, newPolicy)
             IN  IF t2.err # NoErr THEN t2
                 ELSE [BucketPut(t2, namespace, getKey(line), Marshal(line))
                          EXCEPT !.err = NoErr]
        ELSE t1

\* UpdatePolicy that deletes and inserts without looking the old rule up.
UpdatePolicyFn_NoExistCheck(tx, namespace, ptype, oldRule, newPolicy) ==
    LET rule == convertRule(ptype, oldRule)
        t2 == BucketDelete(tx, namespace, getKey(rule))
        line == convertRule(ptype, newPolicy)
    IN  IF t2.err # NoErr THEN t2
        ELSE BucketPut(t2, namespace, getKey(line), Marshal(line))

UpdatePolicyFn(tx, namespace, ptype, oldRule, newPolicy) ==
    LET rule == convertRule(ptype, oldRule)
        t1 == BucketRead(tx, namespace, getKey(rule))
    IN  IF BucketExist(t1, namespace, getKey(rule))
        THEN LET t2 == BucketDelete(t1, namespace, getKey(rule))
                 line == convertRule(ptype, newPolicy)
             IN  IF t2.err # NoErr THEN t2
                 ELSE BucketPut(t2, namespace, getKey(line), Marshal(line))
        ELSE t1

\* An update loop whose existence check reads the store as it was before
\* the call, not the writes of earlier pairs.
RECURSIVE UpdateLoop_Snapshot(_, _, _, _, _)
UpdateLoop_Snapshot(tx, namespace, ptype, oldRules, newRules) ==
    IF Len(oldRules) = 0 THEN tx
    ELSE LET rule == convertRule(ptype, oldRules[1])
             line == convertRule(ptype, newRules[1])
             t1 == BucketRead(tx, namespace, getKey(rule))
             t2 == IF withPrefix(namespace, getKey(rule)) \in DOMAIN tx.snap
                   THEN LET t3 == BucketDelete(t1, namespace, getKey(rule))
                        IN  IF t3.err # NoErr THEN t3
                            ELSE BucketPut(t3, namespace, getKey(line),
                                           Marshal(line))
                   ELSE t1
         IN  IF t2.err # NoErr THEN t2
             ELSE UpdateLoop_Snapshot(t2, namespace, ptype,
                                      Tail(oldRules), Tail(newRules))

RECURSIVE UpdateLoop(_, _, _, _, _)
UpdateLoop(tx, namespace, ptype, oldRules, newRules) ==
    IF Len(oldRules) = 0 THEN tx
    ELSE LET t2 == UpdatePolicyFn(tx, namespace, ptype,
                                  oldRules[1], newRules[1])
         IN  IF t2.err # NoErr THEN t2
             ELSE UpdateLoop(t2, namespace, ptype,
                             Tail(oldRules), Tail(newRules))

\* UpdatePolicies without the length check, pairing the rules it can.
UpdatePoliciesFn_NoLenCheck(tx, namespace, ptype, oldRules, newRules) ==
    LET n == IF Len(oldRules) < Len(newRules) THEN Len(oldRules)
             ELSE Len(newRules)
    IN  UpdateLoop(tx, namespace, ptype,
                   SubSeq(oldRules, 1, n), SubSeq(newRules, 1, n))

UpdatePoliciesFn(tx, namespace, ptype, oldRules, newRules) ==
    IF Len(oldRules) # Len(newRules)
    THEN [tx EXCEPT !.err = InvalidRulesLen]
    ELSE UpdateLoop(tx, namespace, ptype, oldRules, newRules)

\* Read phase of RemoveFilteredPolicy: the error it returns and the keys it
\* collected.  isNil tells a nil fieldValues from an empty, non-nil one.
FilterMatch(namespace, fieldIndex, fieldValues, k) ==
    LET keyStr == Join(fieldValues, Sep)
        values == Split(SubSeq(k, Len(namespace) + 1, Len(k)), Sep)
    IN  /\ Contains(k, keyStr)
        /\ fieldIndex + 1 < Len(values)
        /\ values[fieldIndex + 2] = fieldValues[1]

FilterPanics(namespace, fieldIndex, fieldValues, k) ==
    LET values == Split(SubSeq(k, Len(namespace) + 1, Len(k)), Sep)
    IN  /\ Len(fieldValues) = 0
        /\ fieldIndex + 1 < Len(values)

\* A read phase whose field scan seeks the bucket prefix without the
\* namespace.
RemoveFilteredRead_AllNamespaces(d, namespace, ptype, fieldIndex, fieldValues, isNil) ==
    IF isNil THEN [err |-> ErrEmptyFieldValues, matched |-> <<>>]
    ELSE IF fieldIndex = 0
    THEN LET key == Join(<<ptype>> \o fieldValues, Sep)
         IN  [err |-> NoErr, matched |-> Iterate(d, withPrefix(namespace, key))]
    ELSE IF fieldIndex > -1
    THEN LET scanned == Iterate(d, prefixPolicies)
         IN  IF \E i \in 1..Len(scanned) :
                    FilterPanics(namespace, fieldIndex, fieldValues, scanned[i])
             THEN [err |-> ErrPanic, matched |-> <<>>]
             ELSE [err |-> NoErr,
                   matched |-> SelectSeq(scanned,
                       LAMBDA k : FilterMatch(namespace, fieldIndex,
                                              fieldValues, k))]
    ELSE [err |-> NoErr, matched |-> <<>>]

\* A read phase that treats a negative fieldIndex as 0.
RemoveFilteredRead_NegativeAsZero(d, namespace, ptype, fieldIndex, fieldValues, isNil) ==
    IF isNil THEN [err |-> ErrEmptyFieldValues, matched |-> <<>>]
    ELSE IF fieldIndex <= 0
    THEN LET key == Join(<<ptype>> \o fieldValues, Sep)
         IN  [err |-> NoErr, matched |-> Iterate(d, withPrefix(namespace, key))]
    ELSE LET prefix == prefixPolicies \o namespace \o ptype
             scanned == Iterate(d, prefix)
         IN  IF \E i \in 1..Len(scanned) :
                    FilterPanics(namespace, fieldIndex, fieldValues, scanned[i])
             THEN [err |-> ErrPanic, matched |-> <<>>]
             ELSE [err |-> NoErr,
                   matched |-> SelectSeq(scanned,
                       LAMBDA k : FilterMatch(namespace, fieldIndex,
                                              fieldValues, k))]

RemoveFilteredRead(d, namespace, ptype, fieldIndex, fieldValues, isNil) ==
    IF isNil THEN [err |-> ErrEmptyFieldValues, matched |-> <<>>]
    ELSE IF fieldIndex = 0
    THEN LET key == Join(<<ptype>> \o fieldValues, Sep)
         IN  [err |-> NoErr, matched |-> Iterate(d, withPrefix(namespace, key))]
    ELSE IF fieldIndex > -1
    THEN LET prefix == prefixPolicies \o namespace \o ptype
             scanned == Iterate(d, prefix)
         IN  IF \E i \in 1..Len(scanned) :
                    FilterPanics(namespace, fieldIndex, fieldValues, scanned[i])
             THEN [err |-> ErrPanic, matched |-> <<>>]
             ELSE [err |-> NoErr,
                   matched |-> SelectSeq(scanned,
                       LAMBDA k : FilterMatch(namespace, fieldIndex,
                                              fieldValues, k))]
    ELSE [err |-> NoErr, matched |-> <<>>]

\* A write phase that drops every key under a collected key instead of
\* deleting the collected keys themselves.
RemoveFilteredWrite_ByPrefix(tx, matched) ==
    LET K == {k \in DOMAIN tx.snap :
                 \E i \in 1..Len(matched) : HasPrefix(k, matched[i])}
    IN  IF K # {} /\ tx.failAt = 1
        THEN [tx EXCEPT !.n = 1, !.err = ErrEngine]
        ELSE [tx EXCEPT !.n = Cardinality(K), !.w = [k \in K |-> Tomb]]

\* Write phase of RemoveFilteredPolicy.
RECURSIVE RemoveFilteredWrite(_, _)
RemoveFilteredWrite(tx, matched) ==
    IF Len(matched) = 0 THEN tx
    ELSE LET t2 == TxWrite(tx, matched[1], Tomb)
         IN  IF t2.err # NoErr THEN t2
             ELSE RemoveFilteredWrite(t2, Tail(matched))

(***************************************************************************)
(* LoadPolicy.                                                             *)
(***************************************************************************)
\* csv.Reader with TrimLeadingSpace reading one record.
CsvRead(line) ==
    LET cells == Split(line, <<",">>)
    IN  [i \in 1..Len(cells) |-> TrimLeft(cells[i])]

\* The entry appended to the model for one policy line, or none.
loadCsvPolicyLine(line) ==
    IF Len(line) = 0 \/ HasPrefix(line, <<"#">>) THEN <<>>
    ELSE LET tokens == CsvRead(line)
         IN  << [key |-> tokens[1], rule |-> Tail(tokens)] >>

\* persist.LoadPolicyLine of the casbin library: skip a blank line or a
\* comment, parse the line as one CSV record, append it under its key.
LoadPolicyLine(line) ==
    IF Len(line) = 0 \/ HasPrefix(line, <<"#">>) THEN <<>>
    ELSE LET tokens == CsvRead(line)
         IN  << [key |-> tokens[1], rule |-> Tail(tokens)] >>

loadPolicy(rule) == LoadPolicyLine(Join(rule, <<",">>))

RECURSIVE LoadSeed(_)
LoadSeed(lines) ==
    IF Len(lines) = 0 THEN <<>>
    ELSE loadCsvPolicyLine(TrimSpace(lines[1])) \o LoadSeed(Tail(lines))

RECURSIVE ForEachLoad(_, _)
ForEachLoad(d, keys) ==
    IF Len(keys) = 0 THEN <<>>
    ELSE loadPolicy(Unmarshal(d[keys[1]])) \o ForEachLoad(d, Tail(keys))

LoadPolicyFn(d, namespace, seed) ==
    (IF Len(seed) # 0 THEN LoadSeed(Split(seed, <<NL>>)) ELSE <<>>)
        \o ForEachLoad(d, Iterate(d, withPrefix(namespace, <<>>)))

(***************************************************************************)
(* State machine of one adapter used by one caller: every call runs to     *)
(* completion.  last records the call just made: its arguments, the        *)
(* store before it (pre), its error and, for LoadPolicy, the model filled. *)
(***************************************************************************)
Call(op, ptype, olds, news, idx, vals, isNil, failAt, pre, err, model) ==
    [op |-> op, ptype |-> ptype, olds |-> olds, news |-> news,
     idx |-> idx, vals |-> vals, isNil |-> isNil, failAt |-> failAt,
     pre |-> pre, err |-> err, model |-> model]

NoCall == Call("none", <<>>, <<>>, <<>>, 0, <<>>, FALSE, 0, EmptyDB, NoErr, <<>>)

Idle == [phase |-> "idle", ptype |-> <<>>, idx |-> 0, vals |-> <<>>,
         snapKeys |-> {}, matched |-> <<>>]

\* No transaction of a concurrent client is open.
NoTxns == <<>>

Fits(d) == Cardinality(DOMAIN d) <= MaxStore

\* The caller is between two calls.
Ready == last.op = "none" /\ rfp.phase = "idle"

Init ==
    /\ db = EmptyDB
    /\ builtinPolicy \in Seeds
    /\ last = NoCall
    /\ rfp = Idle
    /\ txns = NoTxns

AddPolicy ==
    \E ptype \in PTypes, rule \in Lines, failAt \in 0..1 :
        LET tx == AddPolicyFn(NewTx(db, failAt), Namespace, ptype, rule)
        IN  /\ Ready
            /\ Fits(Update(db, tx))
            /\ db' = Update(db, tx)
            /\ last' = Call("AddPolicy", ptype, <<rule>>, <<>>, 0, <<>>,
                            FALSE, failAt, db, tx.err, <<>>)
            /\ UNCHANGED <<builtinPolicy, rfp, txns>>

AddPolicies ==
    \E ptype \in PTypes, rules \in SeqsUpTo(BatchLines, MaxBatch) :
      \E failAt \in 0..Len(rules) :
        LET tx == AddPoliciesFn(NewTx(db, failAt), Namespace, ptype, rules)
        IN  /\ Ready
            /\ Fits(Update(db, tx))
            /\ db' = Update(db, tx)
            /\ last' = Call("AddPolicies", ptype, rules, <<>>, 0, <<>>,
                            FALSE, failAt, db, tx.err, <<>>)
            /\ UNCHANGED <<builtinPolicy, rfp, txns>>

RemovePolicy ==
    \E ptype \in PTypes, line \in Lines, failAt \in 0..1 :
        LET tx == RemovePolicyFn(NewTx(db, failAt), Namespace, ptype, line)
        IN  /\ Ready
            /\ db' = Update(db, tx)
            /\ last' = Call("RemovePolicy", ptype, <<line>>, <<>>, 0, <<>>,
                            FALSE, failAt, db, tx.err, <<>>)
            /\ UNCHANGED <<builtinPolicy, rfp, txns>>

RemovePolicies ==
    \E ptype \in PTypes, rules \in SeqsUpTo(BatchLines, MaxBatch) :
      \E failAt \in 0..Len(rules) :
        LET tx == RemovePoliciesFn(NewTx(db, failAt), Namespace, ptype, rules)
        IN  /\ Ready
            /\ db' = Update(db, tx)
            /\ last' = Call("RemovePolicies", ptype, rules, <<>>, 0, <<>>,
                            FALSE, failAt, db, tx.err, <<>>)
            /\ UNCHANGED <<builtinPolicy, rfp, txns>>

UpdatePolicy ==
    \E ptype \in PTypes, oldRule \in Lines, newPolicy \in Lines,
       failAt \in 0..2 :
        LET tx == UpdatePolicyFn(NewTx(db, failAt), Namespace, ptype,
                                 oldRule, newPolicy)
        IN  /\ Ready
            /\ Fits(Update(db, tx))
            /\ db' = Update(db, tx)
            /\ last' = Call("UpdatePolicy", ptype, <<oldRule>>, <<newPolicy>>,
                            0, <<>>, FALSE, failAt, db, tx.err, <<>>)
            /\ UNCHANGED <<builtinPolicy, rfp, txns>>

UpdatePolicies ==
    \E ptype \in PTypes, oldRules \in SeqsUpTo(UpdateLines, MaxBatch),
       newRules \in SeqsUpTo(UpdateLines, MaxBatch) :
      \E failAt \in (IF Len(oldRules) = Len(newRules) THEN 0..2 ELSE {0}) :
        LET tx == UpdatePoliciesFn(NewTx(db, failAt), Namespace, ptype,
                                   oldRules, newRules)
        IN  /\ Ready
            /\ Fits(Update(db, tx))
            /\ db' = Update(db, tx)
            /\ last' = Call("UpdatePolicies", ptype, oldRules, newRules,
                            0, <<>>, FALSE, failAt, db, tx.err, <<>>)
            /\ UNCHANGED <<builtinPolicy, rfp, txns>>

\* RemoveFilteredPolicy with no other caller between its two transactions.
RemoveFilteredPolicy ==
    \E ptype \in PTypes, fieldIndex \in FieldIndexes,
       fieldValues \in FilterValues, isNil \in BOOLEAN, failAt \in 0..1 :
        LET rd == RemoveFilteredRead(db, Namespace, ptype, fieldIndex,
                                     fieldValues, isNil)
            tx == RemoveFilteredWrite(NewTx(db, failAt), rd.matched)
            err == IF rd.err # NoErr THEN rd.err ELSE tx.err
        IN  /\ Ready
            /\ isNil => fieldValues = <<>>
            /\ db' = IF rd.err # NoErr THEN db ELSE Update(db, tx)
            /\ last' = Call("RemoveFilteredPolicy", ptype, <<>>, <<>>,
                            fieldIndex, fieldValues, isNil, failAt, db,
                            err, <<>>)
            /\ UNCHANGED <<builtinPolicy, rfp, txns>>

LoadPolicy ==
    /\ Ready
    /\ last' = Call("LoadPolicy", <<>>, <<>>, <<>>, 0, <<>>, FALSE, 0, db,
                    NoErr, LoadPolicyFn(db, Namespace, builtinPolicy))
    /\ UNCHANGED <<db, builtinPolicy, rfp, txns>>

\* The call returns: the caller takes the result and is ready to call again.
Return ==
    /\ last.op # "none"
    /\ rfp.phase = "idle"
    /\ last' = NoCall
    /\ UNCHANGED <<db, builtinPolicy, rfp, txns>>

\* SavePolicy: always the explicit error, no transaction.
SavePolicy ==
    /\ Ready
    /\ last' = Call("SavePolicy", <<>>, <<>>, <<>>, 0, <<>>, FALSE, 0, db,
                    ErrNotSupported, <<>>)
    /\ UNCHANGED <<db, builtinPolicy, rfp, txns>>

\* UpdateFilteredPolicies: panic("implement"), whatever the arguments.
UpdateFilteredPolicies ==
    \E ptype \in PTypes :
        /\ Ready
        /\ last' = Call("UpdateFilteredPolicies", ptype, <<>>, <<>>, 0, <<>>,
                        FALSE, 0, db, ErrPanic, <<>>)
        /\ UNCHANGED <<db, builtinPolicy, rfp, txns>>

Next ==
    \/ AddPolicy
    \/ AddPolicies
    \/ RemovePolicy
    \/ RemovePolicies
    \/ UpdatePolicy
    \/ UpdatePolicies
    \/ RemoveFilteredPolicy
    \/ LoadPolicy
    \/ SavePolicy
    \/ UpdateFilteredPolicies
    \/ Return

Spec == Init /\ [][Next]_vars

(***************************************************************************)
(* Vocabulary of the properties.                                           *)
(***************************************************************************)
\* The rules a full scan of the bucket decodes, in key order.
Scan(d) ==
    LET keys == Iterate(d, withPrefix(Namespace, <<>>))
    IN  [i \in 1..Len(keys) |-> Unmarshal(d[keys[i]])]

\* Rule r is stored: some record holds the encoding of r.
Stored(d, r) == \E k \in DOMAIN d : d[k] = Marshal(r)

\* d without the records at the keys in K.
Without(d, K) == [k \in DOMAIN d \ K |-> d[k]]

Done(op) == last.op = op

\* The stored rule at key k of d has type ptype and leading fields vals.
LeadingFields(d, k, ptype, vals) ==
    LET r == Unmarshal(d[k])
    IN  /\ r[1] = ptype
        /\ Len(r) >= 1 + Len(vals)
        /\ SubSeq(r, 2, 1 + Len(vals)) = vals

\* C1: RemoveFilteredPolicy with fieldIndex 0 and non-empty values deletes
\* exactly the stored rules of type ptype whose leading fields are the
\* filter values, and no other record.
C1_PrefixFilterExact ==
    (/\ Done("RemoveFilteredPolicy")
     /\ last.idx = 0 /\ ~last.isNil /\ Len(last.vals) > 0
     /\ last.err = NoErr)
    => db = Without(last.pre,
                    {k \in DOMAIN last.pre :
                        LeadingFields(last.pre, k, last.ptype, last.vals)})

\* C3: AddPolicies is atomic: when a write of the batch fails the call
\* returns that error and the store is exactly as before the call.
C3_AddPoliciesAtomic ==
    (Done("AddPolicies") /\ last.failAt > 0)
    => (last.err = ErrEngine /\ db = last.pre)

\* A batch whose second write failed after a first write of a new key.
C3_Witness ==
    /\ Done("AddPolicies")
    /\ Len(last.olds) = 2 /\ last.failAt = 2
    /\ withPrefix(Namespace, getKey(convertRule(last.ptype, last.olds[1])))
           \notin DOMAIN last.pre
    /\ last.err = ErrEngine

\* C4: after a successful AddPolicy(ptype, r) a full scan of the bucket
\* yields exactly one decoded rule equal to [ptype, r...].
C4_AddThenScanOnce ==
    (Done("AddPolicy") /\ last.err = NoErr)
    => Cardinality({i \in 1..Len(Scan(db)) :
           Scan(db)[i] = convertRule(last.ptype, last.olds[1])}) = 1

\* C5: RemovePolicy, and RemovePolicies for each listed rule, on a rule that
\* is not stored returns success and leaves every stored record unchanged.
C5_RemoveAbsentNoChange ==
    (/\ Done("RemovePolicy") \/ Done("RemovePolicies")
     /\ last.failAt = 0
     /\ \A i \in 1..Len(last.olds) :
            ~Stored(last.pre, convertRule(last.ptype, last.olds[i])))
    => (last.err = NoErr /\ db = last.pre)

\* C6: UpdatePolicy whose old rule is not stored returns success and leaves
\* the bucket unchanged; the new rule is not inserted.
C6_UpdateAbsentNoChange ==
    (/\ Done("UpdatePolicy")
     /\ last.failAt = 0
     /\ ~Stored(last.pre, convertRule(last.ptype, last.olds[1])))
    => (last.err = NoErr /\ db = last.pre)

\* C7: UpdatePolicies with old and new lists of different lengths returns
\* the invalid-rule-length error and changes no stored record.
C7_LengthMismatchRejected ==
    (Done("UpdatePolicies") /\ Len(last.olds) # Len(last.news))
    => (last.err = InvalidRulesLen /\ db = last.pre)

\* A mismatched call whose first old rule was stored.
C7_Witness ==
    /\ Done("UpdatePolicies")
    /\ Len(last.olds) # Len(last.news)
    /\ Len(last.olds) > 0 /\ Len(last.news) > 0
    /\ Stored(last.pre, convertRule(last.ptype, last.olds[1]))
    /\ last.err = InvalidRulesLen

\* C8: RemoveFilteredPolicy with no field values, absent or empty, returns
\* the invalid-argument error and deletes nothing, for every fieldIndex.
C8_EmptyValuesRejected ==
    (Done("RemoveFilteredPolicy") /\ Len(last.vals) = 0)
    => (last.err = ErrEmptyFieldValues /\ db = last.pre)

\* The stored rule at key k has type ptype, its field at position idx is
\* vals[1] and its key contains the joined filter values.
FieldAt(d, k, ptype, idx, vals) ==
    LET r == Unmarshal(d[k])
    IN  /\ r[1] = ptype
        /\ Len(r) >= idx + 2
        /\ r[idx + 2] = vals[1]
        /\ Contains(k, Join(vals, Sep))

\* C9: RemoveFilteredPolicy with fieldIndex i > 0 deletes exactly the stored
\* rules of type ptype whose field i is v0 and whose key contains the joined
\* filter values; every other record stays stored.
C9_FieldFilterExact ==
    (/\ Done("RemoveFilteredPolicy")
     /\ last.idx > 0 /\ ~last.isNil /\ Len(last.vals) > 0
     /\ last.err = NoErr)
    => db = Without(last.pre,
                    {k \in DOMAIN last.pre :
                        FieldAt(last.pre, k, last.ptype, last.idx, last.vals)})

\* The rules of the inline seed policy, in text order.
SeedRules(seed) ==
    IF seed = <<>> THEN <<>>
    ELSE << [key |-> PT_p, rule |-> <<F_a, F_b>>],
            [key |-> PT_p2, rule |-> <<F_b>>] >>

\* The persisted rules of the bucket, in ascending key order.
PersistedRules(d) ==
    [i \in 1..Len(Scan(d)) |->
        [key |-> Scan(d)[i][1], rule |-> Tail(Scan(d)[i])]]

\* C10: LoadPolicy appends first every rule of the seed policy in text order
\* (blank and '#' lines skipped), then every persisted rule in ascending key
\* order, without deduplication, and changes no stored record.
C10_LoadOrder ==
    Done("LoadPolicy")
    => /\ last.err = NoErr
       /\ last.model = SeedRules(builtinPolicy) \o PersistedRules(last.pre)
       /\ db = last.pre

(***************************************************************************)
(* RemoveFilteredPolicy next to a concurrent writer: its read transaction  *)
(* and its write transaction are two steps, and another client's AddPolicy *)
(* and RemovePolicy transactions commit before, between and after them.    *)
(***************************************************************************)
ConcLines == {<<F_a>>, <<F_a, F_b>>, <<F_ab>>}

ConcInit ==
    /\ db = EmptyDB
    /\ builtinPolicy = <<>>
    /\ last = NoCall
    /\ rfp = Idle
    /\ txns = NoTxns

WriterAddPolicy ==
    \E ptype \in PTypes, rule \in ConcLines :
        LET tx == AddPolicyFn(NewTx(db, 0), Namespace, ptype, rule)
        IN  /\ rfp.phase # "returned"
            /\ Fits(Update(db, tx))
            /\ db' = Update(db, tx)
            /\ UNCHANGED <<builtinPolicy, last, rfp, txns>>

WriterRemovePolicy ==
    \E ptype \in PTypes, line \in ConcLines :
        LET tx == RemovePolicyFn(NewTx(db, 0), Namespace, ptype, line)
        IN  /\ rfp.phase # "returned"
            /\ db' = Update(db, tx)
            /\ UNCHANGED <<builtinPolicy, last, rfp, txns>>

\* The nil check and the read transaction of RemoveFilteredPolicy.
RemoveFilteredCollect ==
    \E ptype \in PTypes, fieldIndex \in FieldIndexes,
       fieldValues \in FilterValues, isNil \in BOOLEAN :
        LET rd == RemoveFilteredRead(db, Namespace, ptype, fieldIndex,
                                     fieldValues, isNil)
            inflight == [phase |-> "collected", ptype |-> ptype,
                         idx |-> fieldIndex, vals |-> fieldValues,
                         snapKeys |-> DOMAIN db, matched |-> rd.matched]
        IN  /\ rfp.phase = "idle"
            /\ isNil => fieldValues = <<>>
            /\ IF rd.err # NoErr
               THEN /\ rfp' = [inflight EXCEPT !.phase = "returned"]
                    /\ last' = Call("RemoveFilteredPolicy", ptype, <<>>, <<>>,
                                    fieldIndex, fieldValues, isNil, 0, db,
                                    rd.err, <<>>)
               ELSE /\ rfp' = inflight
                    /\ last' = last
            /\ UNCHANGED <<db, builtinPolicy, txns>>

\* The write transaction of RemoveFilteredPolicy, and its return.
RemoveFilteredDelete ==
    \E failAt \in 0..1 :
        LET tx == RemoveFilteredWrite(NewTx(db, failAt), rfp.matched)
        IN  /\ rfp.phase = "collected"
            /\ db' = Update(db, tx)
            /\ rfp' = [rfp EXCEPT !.phase = "returned"]
            /\ last' = Call("RemoveFilteredPolicy", rfp.ptype, <<>>, <<>>,
                            rfp.idx, rfp.vals, FALSE, failAt, db, tx.err,
                            <<>>)
            /\ UNCHANGED <<builtinPolicy, txns>>

ConcReturn ==
    /\ rfp.phase = "returned"
    /\ rfp' = Idle
    /\ last' = NoCall
    /\ UNCHANGED <<db, builtinPolicy, txns>>

ConcNext ==
    \/ WriterAddPolicy
    \/ WriterRemovePolicy
    \/ RemoveFilteredCollect
    \/ RemoveFilteredDelete
    \/ ConcReturn

SpecConc == ConcInit /\ [][ConcNext]_vars

Range(s) == {s[i] : i \in 1..Len(s)}

\* C2: the write transaction of RemoveFilteredPolicy deletes only keys its
\* read transaction collected, so a record whose key was not stored at the
\* read phase and was added by a concurrent writer between the two phases is
\* still stored when RemoveFilteredPolicy returns.
C2_DeletesOnlyCollected ==
    (rfp.phase = "returned" /\ last.err = NoErr)
    => /\ (DOMAIN last.pre \ DOMAIN db) \subseteq Range(rfp.matched)
       /\ \A k \in DOMAIN last.pre \ rfp.snapKeys :
              k \in DOMAIN db /\ db[k] = last.pre[k]

\* A collected key was deleted while a matching record added between the two
\* phases survived.
C2_Witness ==
    /\ rfp.phase = "returned" /\ last.err = NoErr
    /\ DOMAIN last.pre \ DOMAIN db # {}
    /\ \E k \in DOMAIN last.pre \ rfp.snapKeys :
          /\ k \in Range(RemoveFilteredRead(last.pre, Namespace, rfp.ptype,
                                            rfp.idx, rfp.vals, FALSE).matched)
          /\ k \in DOMAIN db


\* C11: SavePolicy and UpdateFilteredPolicies always return the explicit
\* unsupported-operation error, never crash, never succeed, and leave the
\* store unchanged.
C11_UnsupportedRejected ==
    (Done("SavePolicy") \/ Done("UpdateFilteredPolicies"))
    => (last.err = ErrNotSupported /\ db = last.pre)


(***************************************************************************)
(* Bucket.List: offset pagination over the keys under a cursor prefix.     *)
(***************************************************************************)
Reverse(s) == [i \in 1..Len(s) |-> s[Len(s) + 1 - i]]

\* A List that, when asked to skip, passes over one match more than asked.
RECURSIVE ListWalk_SkipOneMore(_, _, _, _)
ListWalk_SkipOneMore(d, keys, skip, limit) ==
    IF Len(keys) = 0 \/ limit = 0 THEN <<>>
    ELSE IF skip > 0
    THEN ListWalk_SkipOneMore(d, SubSeq(keys, skip + 2, Len(keys)), 0, limit)
    ELSE <<Unmarshal(d[keys[1]])>>
             \o ListWalk_SkipOneMore(d, Tail(keys), 0, limit - 1)

\* Walk the matches in order: pass over the first skip of them, then collect
\* up to limit decoded records.
RECURSIVE ListWalk(_, _, _, _)
ListWalk(d, keys, skip, limit) ==
    IF Len(keys) = 0 \/ limit = 0 THEN <<>>
    ELSE IF skip > 0 THEN ListWalk(d, Tail(keys), skip - 1, limit)
    ELSE <<Unmarshal(d[keys[1]])>> \o ListWalk(d, Tail(keys), 0, limit - 1)

List(d, namespace, cursorPrefix, skip, limit, reverse) ==
    LET keys == Iterate(d, withPrefix(namespace, cursorPrefix))
    IN  ListWalk(d, IF reverse THEN Reverse(keys) ELSE keys, skip, limit)

CursorPrefixes == {<<>>, PT_p, PT_p \o Sep \o F_a, PT_p2}

ListInit ==
    /\ db = EmptyDB
    /\ builtinPolicy = <<>>
    /\ last = NoCall
    /\ rfp = Idle
    /\ txns = NoTxns

\* Fill the bucket.
ListPut ==
    \E ptype \in PTypes, rule \in Lines :
        LET tx == AddPolicyFn(NewTx(db, 0), Namespace, ptype, rule)
        IN  /\ last.op = "none"
            /\ Cardinality(DOMAIN Update(db, tx)) <= MaxListKeys
            /\ db' = Update(db, tx)
            /\ UNCHANGED <<builtinPolicy, last, rfp, txns>>

\* One View transaction that lists a page, the page after it, and both
\* pages in one call.
ListPages ==
    \E cursorPrefix \in CursorPrefixes, skip \in 0..MaxSkip,
       limit \in 0..MaxLimit, reverse \in BOOLEAN :
        /\ last.op = "none"
        /\ last' = Call("List", cursorPrefix, <<>>, <<>>, skip, <<>>, FALSE,
                        0, db, NoErr,
                        [limit |-> limit, reverse |-> reverse,
                         first |-> List(db, Namespace, cursorPrefix,
                                        skip, limit, reverse),
                         second |-> List(db, Namespace, cursorPrefix,
                                         skip + limit, limit, reverse),
                         both |-> List(db, Namespace, cursorPrefix,
                                       skip, 2 * limit, reverse)])
        /\ UNCHANGED <<db, builtinPolicy, rfp, txns>>

ListReturn ==
    /\ last.op = "List"
    /\ last' = NoCall
    /\ UNCHANGED <<db, builtinPolicy, rfp, txns>>

ListNext ==
    \/ ListPut
    \/ ListPages
    \/ ListReturn

SpecList == ListInit /\ [][ListNext]_vars

\* C12: offset pagination is contiguous: on unchanged data List(prefix, k, n)
\* followed by List(prefix, k+n, n) equals List(prefix, k, 2n), so the second
\* page starts right after the first page's last match.
C12_PagesContiguous ==
    Done("List")
    => last.model.first \o last.model.second = last.model.both

\* Two non-empty pages under a non-empty cursor prefix, after a skip.
C12_Witness ==
    /\ Done("List")
    /\ last.idx > 0 /\ last.model.limit > 0
    /\ Len(last.ptype) > 0
    /\ Len(last.model.first) = last.model.limit
    /\ Len(last.model.second) > 0


\* C13: RemoveFilteredPolicy with a fieldIndex of 1 or more (a filter that is
\* not a leading key prefix) returns an error and removes nothing.
C13_NonPrefixFilterRejected ==
    (/\ Done("RemoveFilteredPolicy")
     /\ last.idx >= 1 /\ ~last.isNil /\ Len(last.vals) > 0)
    => (last.err # NoErr /\ last.err # ErrPanic /\ db = last.pre)


\* C14: two different rules never get the same storage key: a successful
\* AddPolicy never overwrites or removes a record of a different rule, so a
\* full scan afterwards still returns every rule stored before.
C14_KeysUnambiguous ==
    (Done("AddPolicy") /\ last.err = NoErr)
    => \A k \in DOMAIN last.pre :
           last.pre[k] # Marshal(convertRule(last.ptype, last.olds[1]))
           => (k \in DOMAIN db /\ db[k] = last.pre[k])


\* ---------------------------------------------------------------------------
\* All-or-nothing updates.

\* The key under which the adapter stores rule of type ptype.
KeyOf(ptype, rule) == withPrefix(Namespace, getKey(convertRule(ptype, rule)))

\* Pair i of the last update call shares no key with another pair of the call.
Independent(i) ==
    \A j \in 1..Len(last.olds) :
        j # i => {KeyOf(last.ptype, last.olds[j]),
                  KeyOf(last.ptype, last.news[j])}
                 \cap {KeyOf(last.ptype, last.olds[i]),
                       KeyOf(last.ptype, last.news[i])} = {}

TxnClients == {1, 2}

TxnLines == {<<F_a>>, <<F_b>>, <<F_a, F_b>>}

ErrConflict == "Transaction Conflict. Please retry"

\* The store that holds the rules of S, all of type p.
StoreOf(S) ==
    LET K == {KeyOf(PT_p, r) : r \in S}
    IN  [k \in K |->
            Marshal(convertRule(PT_p,
                CHOOSE r \in S : KeyOf(PT_p, r) = k))]

TxnStores == {StoreOf(S) : S \in {T \in SUBSET TxnLines :
                                      Cardinality(T) <= MaxStore}}

\* The engine transactions a call performs, in order.
UpdatePolicyTxns(ptype, oldRule, newPolicy) ==
    << [fn |-> "UpdatePolicy", ptype |-> ptype, olds |-> <<oldRule>>,
        news |-> <<newPolicy>>] >>

\* AddPolicies committing every rule in a transaction of its own.
AddPoliciesTxns_PerRule(ptype, rules) ==
    [i \in 1..Len(rules) |->
        [fn |-> "AddPolicies", ptype |-> ptype, olds |-> <<>>,
         news |-> <<rules[i]>>]]

AddPoliciesTxns(ptype, rules) ==
    << [fn |-> "AddPolicies", ptype |-> ptype, olds |-> <<>>,
        news |-> rules] >>

LoadPolicyTxns ==
    << [fn |-> "LoadPolicy", ptype |-> <<>>, olds |-> <<>>, news |-> <<>>] >>

\* The transaction t run to the end of its function on the store d.
RunFn(t, d) ==
    CASE t.fn = "UpdatePolicy" ->
            UpdatePolicyFn(NewTx(d, 0), Namespace, t.ptype,
                           t.olds[1], t.news[1])
      [] t.fn = "AddPolicies" ->
            AddPoliciesFn(NewTx(d, 0), Namespace, t.ptype, t.news)
      [] OTHER -> NewTx(d, 0)

TxnCallRec(phase, op, ptype, olds, news, plan, tx, stale, err, model) ==
    [phase |-> phase, op |-> op, ptype |-> ptype, olds |-> olds,
     news |-> news, plan |-> plan, tx |-> tx, stale |-> stale,
     err |-> err, model |-> model]

TxnIdle ==
    TxnCallRec("idle", "none", <<>>, <<>>, <<>>, <<>>, NewTx(EmptyDB, 0),
               {}, NoErr, <<>>)

TxnInit ==
    /\ db \in TxnStores
    /\ builtinPolicy = <<>>
    /\ last = NoCall
    /\ rfp = Idle
    /\ txns = [init |-> db, c |-> [i \in TxnClients |-> TxnIdle]]

\* Client i makes a call.
TxnCall(i) ==
    /\ txns.c[i].phase = "idle"
    /\ \/ \E oldRule \in TxnLines, newPolicy \in TxnLines :
            txns' = [txns EXCEPT !.c[i] =
                TxnCallRec("ready", "UpdatePolicy", PT_p, <<oldRule>>,
                           <<newPolicy>>,
                           UpdatePolicyTxns(PT_p, oldRule, newPolicy),
                           NewTx(EmptyDB, 0), {}, NoErr, <<>>)]
       \/ \E rules \in SeqsUpTo(TxnLines, MaxBatch) \ {<<>>} :
            txns' = [txns EXCEPT !.c[i] =
                TxnCallRec("ready", "AddPolicies", PT_p, <<>>, rules,
                           AddPoliciesTxns(PT_p, rules),
                           NewTx(EmptyDB, 0), {}, NoErr, <<>>)]
       \/ txns' = [txns EXCEPT !.c[i] =
                TxnCallRec("ready", "LoadPolicy", <<>>, <<>>, <<>>,
                           LoadPolicyTxns, NewTx(EmptyDB, 0), {}, NoErr,
                           <<>>)]
    /\ UNCHANGED <<db, builtinPolicy, last, rfp>>

\* The next transaction of client i's call begins: it reads the store of now.
TxnBegin(i) ==
    /\ txns.c[i].phase = "ready"
    /\ txns' = [txns EXCEPT !.c[i].phase = "open",
                            !.c[i].tx = RunFn(Head(txns.c[i].plan), db),
                            !.c[i].stale = {}]
    /\ UNCHANGED <<db, builtinPolicy, last, rfp>>

\* The transaction of client i ends: a View is discarded, an Update whose
\* function failed is discarded, an Update in conflict fails, any other
\* Update commits and the call goes on with its next transaction, if any.
TxnCommit(i) ==
    LET c == txns.c[i]
        conflict == DOMAIN c.tx.w # {} /\ c.tx.reads \cap c.stale # {}
    IN  /\ c.phase = "open"
        /\ IF c.op = "LoadPolicy"
           THEN /\ txns' = [txns EXCEPT
                       !.c[i].phase = "done",
                       !.c[i].model = LoadPolicyFn(c.tx.snap, Namespace,
                                                   builtinPolicy)]
                /\ db' = db
           ELSE IF c.tx.err # NoErr \/ conflict
           THEN /\ txns' = [txns EXCEPT
                       !.c[i].phase = "done",
                       !.c[i].err = IF c.tx.err # NoErr THEN c.tx.err
                                    ELSE ErrConflict]
                /\ db' = db
           ELSE /\ db' = Update(db, c.tx)
                /\ txns' = [txns EXCEPT !.c =
                       [j \in TxnClients |->
                          IF j = i
                          THEN [c EXCEPT
                                  !.plan = Tail(@),
                                  !.phase = IF Len(c.plan) > 1 THEN "ready"
                                            ELSE "done"]
                          ELSE IF txns.c[j].phase = "open"
                          THEN [txns.c[j] EXCEPT
                                  !.stale = @ \cup DOMAIN c.tx.w]
                          ELSE txns.c[j]]]
        /\ UNCHANGED <<builtinPolicy, last, rfp>>

TxnNext ==
    \/ \E i \in TxnClients : TxnCall(i)
    \/ \E i \in TxnClients : TxnBegin(i)
    \/ \E i \in TxnClients : TxnCommit(i)

SpecTxn == TxnInit /\ [][TxnNext]_vars

\* Rule r of type p is among the rules LoadPolicy put into model.
Loaded(model, r) ==
    \E n \in 1..Len(model) : model[n] = [key |-> PT_p, rule |-> r]


\* C16: two overlapping UpdatePolicy calls that replace the same stored rule
\* by two different new rules never both take effect: when both have
\* returned, the old rule is gone, exactly one of the new rules is stored,
\* one call succeeded, and the other either failed with the conflict error
\* (its rule is not stored) or ran after the first and was skipped.
C16_NoLostUpdate ==
    LET a == txns.c[1]
        b == txns.c[2]
    IN  (/\ a.phase = "done" /\ b.phase = "done"
         /\ a.op = "UpdatePolicy" /\ b.op = "UpdatePolicy"
         /\ a.olds = b.olds
         /\ KeyOf(PT_p, a.olds[1]) \in DOMAIN txns.init
         /\ KeyOf(PT_p, a.news[1]) # KeyOf(PT_p, b.news[1])
         /\ KeyOf(PT_p, a.news[1]) \notin DOMAIN txns.init
         /\ KeyOf(PT_p, b.news[1]) \notin DOMAIN txns.init)
        => LET na == KeyOf(PT_p, a.news[1])
               nb == KeyOf(PT_p, b.news[1])
           IN  /\ KeyOf(PT_p, a.olds[1]) \notin DOMAIN db
               /\ ~(na \in DOMAIN db /\ nb \in DOMAIN db)
               /\ na \in DOMAIN db \/ nb \in DOMAIN db
               /\ {a.err, b.err} \subseteq {NoErr, ErrConflict}
               /\ a.err = NoErr \/ b.err = NoErr
               /\ a.err = ErrConflict => na \notin DOMAIN db
               /\ b.err = ErrConflict => nb \notin DOMAIN db

\* Both calls have returned and one of them lost the race: it began before
\* the other committed and failed with the conflict error.
C16_Witness ==
    /\ txns.c[1].phase = "done" /\ txns.c[2].phase = "done"
    /\ txns.c[1].op = "UpdatePolicy" /\ txns.c[2].op = "UpdatePolicy"
    /\ txns.c[1].olds = txns.c[2].olds
    /\ txns.c[1].news # txns.c[2].news
    /\ KeyOf(PT_p, txns.c[1].olds[1]) \in DOMAIN txns.init
    /\ KeyOf(PT_p, txns.c[1].news[1]) \notin DOMAIN txns.init
    /\ KeyOf(PT_p, txns.c[2].news[1]) \notin DOMAIN txns.init
    /\ txns.c[1].err = NoErr
    /\ txns.c[2].err = ErrConflict

\* C17: a LoadPolicy that overlaps a mutating call of the other client sees
\* the store before or after that call's commit, never in between: of the
\* rules an AddPolicies batch newly adds it loads all or none, and of the old
\* and the new rule of an UpdatePolicy of a stored rule it loads exactly one.
C17_LoadSeesWholeCommits ==
    \A r \in TxnClients, w \in TxnClients :
        (r # w /\ txns.c[r].op = "LoadPolicy" /\ txns.c[r].phase = "done")
        => LET m == txns.c[r].model
               c == txns.c[w]
               added == {n \in 1..Len(c.news) :
                            KeyOf(PT_p, c.news[n]) \notin DOMAIN txns.init}
           IN  /\ c.op = "AddPolicies"
                  => \/ \A n \in added : Loaded(m, c.news[n])
                     \/ \A n \in added : ~Loaded(m, c.news[n])
               /\ (/\ c.op = "UpdatePolicy"
                   /\ KeyOf(PT_p, c.olds[1]) \in DOMAIN txns.init
                   /\ KeyOf(PT_p, c.news[1]) \notin DOMAIN txns.init)
                  => Loaded(m, c.olds[1]) # Loaded(m, c.news[1])

\* A LoadPolicy has returned that was reading while the other client's
\* AddPolicies of two new rules committed.
C17_Witness ==
    \E r \in TxnClients, w \in TxnClients :
        /\ r # w
        /\ txns.c[r].op = "LoadPolicy" /\ txns.c[r].phase = "done"
        /\ txns.c[r].stale # {}
        /\ txns.c[w].op = "AddPolicies" /\ txns.c[w].phase = "done"
        /\ Len(txns.c[w].news) = 2
        /\ \A n \in 1..2 : KeyOf(PT_p, txns.c[w].news[n]) \notin DOMAIN txns.init
        /\ txns.c[w].news[1] # txns.c[w].news[2]
        /\ \A n \in 1..2 : ~Loaded(txns.c[r].model, txns.c[w].news[n])


\* ---------------------------------------------------------------------------
\* Negative field index.

\* C19: RemoveFilteredPolicy with a negative fieldIndex and non-empty
\* fieldValues matches nothing: it returns nil and the store is as before,
\* whatever the engine would have done to a write.
C19_NegativeIndexNoop ==
    (/\ Done("RemoveFilteredPolicy")
     /\ last.idx < 0
     /\ Len(last.vals) > 0)
    => /\ last.err = NoErr
       /\ db = last.pre

\* The call was made on a store holding a record that the same values select
\* at fieldIndex 0, with an engine set to reject the first write.
C19_Witness ==
    /\ Done("RemoveFilteredPolicy")
    /\ last.idx < 0
    /\ Len(last.vals) > 0
    /\ last.failAt = 1
    /\ RemoveFilteredRead(last.pre, Namespace, last.ptype, 0, last.vals,
                          FALSE).matched # <<>>

\* ---------------------------------------------------------------------------
\* UpdatePolicies as a sequence of UpdatePolicy calls.

\* The store after UpdatePolicy(olds[i], news[i]) for i = 1, 2, ... in turn,
\* each in a transaction of its own on an engine that rejects no write.
RECURSIVE OneByOne(_, _, _, _)
OneByOne(d, ptype, olds, news) ==
    IF Len(olds) = 0 THEN d
    ELSE OneByOne(Update(d, UpdatePolicyFn(NewTx(d, 0), Namespace, ptype,
                                           olds[1], news[1])),
                  ptype, Tail(olds), Tail(news))

\* C20: for lists of equal length, a successful UpdatePolicies leaves the
\* store that the UpdatePolicy calls of its pairs, made one after another in
\* index order, leave: a later pair sees what the earlier pairs deleted and
\* inserted.
C20_UpdatePoliciesSequential ==
    (/\ Done("UpdatePolicies")
     /\ Len(last.olds) = Len(last.news)
     /\ last.err = NoErr)
    => db = OneByOne(last.pre, last.ptype, last.olds, last.news)

\* A successful call whose second pair replaced the rule its first pair had
\* inserted: that rule was not stored before the call.
C20_Witness ==
    /\ Done("UpdatePolicies")
    /\ last.err = NoErr
    /\ Len(last.olds) = 2 /\ Len(last.news) = 2
    /\ last.olds[2] = last.news[1]
    /\ last.news[2] # last.news[1]
    /\ KeyOf(last.ptype, last.olds[1]) \in DOMAIN last.pre
    /\ KeyOf(last.ptype, last.olds[2]) \notin DOMAIN last.pre
    /\ KeyOf(last.ptype, last.news[2]) \in DOMAIN db
    /\ KeyOf(last.ptype, last.news[1]) \notin DOMAIN db

(***************************************************************************)
(* Two adapters on one store, each with a namespace of its own, neither    *)
(* namespace a prefix of the other.  One caller; last records the call     *)
(* just made and the namespace of the adapter it was made on.              *)
(***************************************************************************)
NS_n == <<"n">>
NS_mn == <<"m", "n">>
Namespaces == {NS_n, NS_mn}

NsLines == {<<F_a>>, <<F_a, F_b>>}
NsFilterValues == {<<F_a>>, <<F_b>>, <<F_a, F_b>>}

NsCall(namespace, c) ==
    [ns |-> namespace, op |-> c.op, ptype |-> c.ptype, olds |-> c.olds,
     news |-> c.news, idx |-> c.idx, vals |-> c.vals, isNil |-> c.isNil,
     failAt |-> c.failAt, pre |-> c.pre, err |-> c.err, model |-> c.model]

NsInit ==
    /\ db = EmptyDB
    /\ builtinPolicy = <<>>
    /\ last = NsCall(<<>>, NoCall)
    /\ rfp = Idle
    /\ txns = NoTxns

NsAddPolicy(namespace) ==
    \E ptype \in PTypes, rule \in NsLines :
        LET tx == AddPolicyFn(NewTx(db, 0), namespace, ptype, rule)
        IN  /\ Ready
            /\ Fits(Update(db, tx))
            /\ db' = Update(db, tx)
            /\ last' = NsCall(namespace,
                   Call("AddPolicy", ptype, <<rule>>, <<>>, 0, <<>>, FALSE,
                        0, db, tx.err, <<>>))
            /\ UNCHANGED <<builtinPolicy, rfp, txns>>

NsRemovePolicy(namespace) ==
    \E ptype \in PTypes, line \in NsLines :
        LET tx == RemovePolicyFn(NewTx(db, 0), namespace, ptype, line)
        IN  /\ Ready
            /\ db' = Update(db, tx)
            /\ last' = NsCall(namespace,
                   Call("RemovePolicy", ptype, <<line>>, <<>>, 0, <<>>, FALSE,
                        0, db, tx.err, <<>>))
            /\ UNCHANGED <<builtinPolicy, rfp, txns>>

NsUpdatePolicy(namespace) ==
    \E ptype \in PTypes, oldRule \in NsLines, newPolicy \in NsLines :
        LET tx == UpdatePolicyFn(NewTx(db, 0), namespace, ptype,
                                 oldRule, newPolicy)
        IN  /\ Ready
            /\ db' = Update(db, tx)
            /\ last' = NsCall(namespace,
                   Call("UpdatePolicy", ptype, <<oldRule>>, <<newPolicy>>, 0,
                        <<>>, FALSE, 0, db, tx.err, <<>>))
            /\ UNCHANGED <<builtinPolicy, rfp, txns>>

NsRemoveFilteredPolicy(namespace) ==
    \E ptype \in PTypes, fieldIndex \in {0, 1, 2},
       fieldValues \in NsFilterValues :
        LET rd == RemoveFilteredRead(db, namespace, ptype, fieldIndex,
                                     fieldValues, FALSE)
            tx == RemoveFilteredWrite(NewTx(db, 0), rd.matched)
            err == IF rd.err # NoErr THEN rd.err ELSE tx.err
        IN  /\ Ready
            /\ db' = IF rd.err # NoErr THEN db ELSE Update(db, tx)
            /\ last' = NsCall(namespace,
                   Call("RemoveFilteredPolicy", ptype, <<>>, <<>>, fieldIndex,
                        fieldValues, FALSE, 0, db, err, <<>>))
            /\ UNCHANGED <<builtinPolicy, rfp, txns>>

NsLoadPolicy(namespace) ==
    /\ Ready
    /\ last' = NsCall(namespace,
           Call("LoadPolicy", <<>>, <<>>, <<>>, 0, <<>>, FALSE, 0, db, NoErr,
                LoadPolicyFn(db, namespace, builtinPolicy)))
    /\ UNCHANGED <<db, builtinPolicy, rfp, txns>>

NsReturn ==
    /\ last.op # "none"
    /\ last' = NsCall(<<>>, NoCall)
    /\ UNCHANGED <<db, builtinPolicy, rfp, txns>>

NsNext ==
    \/ \E namespace \in Namespaces : NsAddPolicy(namespace)
    \/ \E namespace \in Namespaces : NsRemovePolicy(namespace)
    \/ \E namespace \in Namespaces : NsUpdatePolicy(namespace)
    \/ \E namespace \in Namespaces : NsRemoveFilteredPolicy(namespace)
    \/ \E namespace \in Namespaces : NsLoadPolicy(namespace)
    \/ NsReturn

SpecNS == NsInit /\ [][NsNext]_vars

\* The keys of d that lie in the bucket of namespace.
KeysOf(d, namespace) ==
    {k \in DOMAIN d : HasPrefix(k, withPrefix(namespace, <<>>))}

\* C18: an operation on the adapter of one namespace (AddPolicy,
\* RemovePolicy, UpdatePolicy, RemoveFilteredPolicy with fieldIndex 0 or
\* greater) neither adds, changes nor deletes a record of the other
\* namespace, and LoadPolicy loads what it would load were the records of the
\* other namespace not in the store.
C18_NamespacesIsolated ==
    last.op # "none"
    => \A other \in Namespaces \ {last.ns} :
          /\ KeysOf(db, other) = KeysOf(last.pre, other)
          /\ \A k \in KeysOf(last.pre, other) : db[k] = last.pre[k]
          /\ last.op = "LoadPolicy"
             => last.model =
                LoadPolicyFn(Without(last.pre, KeysOf(last.pre, other)),
                             last.ns, builtinPolicy)

\* A field filter on one namespace deleted a record while the other namespace
\* holds a record of the same rule.
C18_Witness ==
    /\ last.op = "RemoveFilteredPolicy"
    /\ last.idx = 1
    /\ last.err = NoErr
    /\ \E k \in DOMAIN last.pre \ DOMAIN db :
          \E other \in Namespaces \ {last.ns} :
             \E j \in KeysOf(db, other) : db[j] = last.pre[k]

====
